---- MODULE Spec2Model ----
(***************************************************************************)
(* Point rule engine of app.py (Tablo 10, 2025): article_share and         *)
(* compute_points, modelled as calls of pure functions.                    *)
(*                                                                         *)
(* Numbers.  Python computes in floats; the model computes in exact        *)
(* rationals, held as integers in units of 1/Scale of a point.  Scale is   *)
(* chosen so that every division the code performs within the bounds is    *)
(* exact.  Binary rounding of floats is not modelled.  The figures of the   *)
(* breakdown, which the code rounds to 4 decimals, are integers in units   *)
(* of 1/10000 of a point.                                                  *)
(***************************************************************************)
EXTENDS Integers, Sequences, FiniteSets, TLC

VARIABLES fn, args, pc, ret, locals, calls, db, session, page

vars == <<fn, args, pc, ret, locals, calls, db, session, page>>

\* calls: every finished call of compute_points, its payload with its outcome
\*        and the visit counter it ran under
\* db: the SQLite tables users and records, the AUTOINCREMENT sequence of
\*     records, and the stats row 'visits'
\* session: st.session_state of the browser session
\* page: what the last script run of main() rendered: the widget values
\*       (form), the buttons on the page, and, as history, the payload and
\*       Totals of the last 'Hesapla' run (calc), the event that triggered
\*       the run (run) and the records table the run started from
app == <<db, session, page>>

(***************************************************************************)
(* Bounds of the inputs.                                                   *)
(***************************************************************************)
\* largest author count passed to article_share on its own
MaxShareAuthors == 4
\* largest author count of a list item, largest inventor count of a patent tier
MaxAuthors == 2
\* longest list of non-thesis articles
MaxArticles == 3
\* longest list of thesis publications
MaxThesis == 2
\* largest value of a count field (citations, supervisions, meetings, ...)
MaxCount == 4
\* largest value of a count field of the six-field records (projects, awards)
MaxSmallCount == 2
\* largest number of patents of one tier
MaxPatents == 1
\* largest inventor count of a patent tier where the tiers are varied alone
MaxInventors == 4

(***************************************************************************)
(* Arithmetic.                                                             *)
(***************************************************************************)
RECURSIVE GCD(_, _)
GCD(a, b) == IF b = 0 THEN a ELSE GCD(b, a % b)

RECURSIVE LCMUpTo(_)
LCMUpTo(n) == IF n <= 1 THEN 1 ELSE (LCMUpTo(n - 1) * n) \div GCD(LCMUpTo(n - 1), n)

max(a, b) == IF a >= b THEN a ELSE b

\* units per point: divisible by 5 (0.8), by 2 (0.5, 2.5, 1.5), by every
\* author count n and by 2*(n-1)
Scale ==
    10 * LCMUpTo(max(max(MaxShareAuthors, MaxAuthors), MaxInventors))

\* k points
Pt(k) == k * Scale

\* Python's x / n on the values that occur (n divides x by the choice of Scale)
Div(x, n) == x \div n

\* Python's round(x, 4): nearest multiple of 1/10000, a tie going to the even one
Round4(x) ==
    LET q == (x * 10000) \div Scale
        r == (x * 10000) % Scale
    IN  IF 2 * r > Scale THEN q + 1
        ELSE IF 2 * r < Scale THEN q
        ELSE IF q % 2 = 0 THEN q ELSE q + 1

RECURSIVE SeqSum(_)
SeqSum(s) == IF s = <<>> THEN 0 ELSE s[1] + SeqSum(Tail(s))

\* dict.get(key, default)
Get(d, key, default) == IF key \in DOMAIN d THEN d[key] ELSE default

None == [none |-> TRUE]

(***************************************************************************)
(* cap, article_share                                                      *)
(***************************************************************************)
\* cap that does not cap
cap_nocap(value, maxv) == value

cap(value, maxv) == IF value <= maxv THEN value ELSE maxv

\* article_share without the sole-author return of lines 167-168
article_share_no_sole(points, num_authors, role, has_primary_author) ==
    IF num_authors <= 0 THEN 0
    ELSE IF ~has_primary_author THEN Div(points, num_authors)
    ELSE IF num_authors <= 2
         THEN (IF role = "primary" THEN Div(points * 4, 5) ELSE Div(points, 2))
    ELSE IF role = "primary" THEN Div(points, 2)
         ELSE Div(Div(points, 2), num_authors - 1)

\* article_share giving the second of two authors the complement of 0.8
article_share_complement(points, num_authors, role, has_primary_author) ==
    IF num_authors <= 0 THEN 0
    ELSE IF num_authors = 1 THEN points
    ELSE IF ~has_primary_author THEN Div(points, num_authors)
    ELSE IF num_authors = 2
         THEN (IF role = "primary" THEN Div(points * 4, 5) ELSE Div(points, 5))
    ELSE IF role = "primary" THEN Div(points, 2)
         ELSE Div(Div(points, 2), num_authors - 1)

article_share(points, num_authors, role, has_primary_author) ==
    IF num_authors <= 0 THEN 0
    ELSE IF num_authors = 1 THEN points
    ELSE IF ~has_primary_author THEN Div(points, num_authors)
    ELSE IF num_authors = 2
         THEN (IF role = "primary" THEN Div(points * 4, 5) ELSE Div(points, 2))
    \* 3+ authors
    ELSE IF role = "primary" THEN Div(points, 2)
         ELSE Div(Div(points, 2), num_authors - 1)

(***************************************************************************)
(* compute_points: the rule tables                                         *)
(***************************************************************************)
base_map ==
    ("Q1" :> 30) @@ ("Q2" :> 20) @@ ("Q3" :> 15) @@ ("Q4" :> 10) @@
    ("AHCI" :> 20) @@ ("ESCI" :> 10) @@ ("OTHER_INT" :> 5) @@
    ("TRDIZIN" :> 10) @@ ("OTHER_NAT" :> 4) @@ ("LETTER" :> 3) @@ ("CASE" :> 5)

thesis_map ==
    ("SCIE_SSCI_AHCI" :> 20) @@ ("ESCI_SCOPUS" :> 10) @@ ("OTHER_INT" :> 5) @@
    ("TRDIZIN" :> 8) @@ ("BKCI_BOOK" :> 20) @@ ("BKCI_CHAPTER" :> 10) @@
    ("OTHER_BOOK" :> 5) @@ ("OTHER_BOOK_CH" :> 3) @@ ("CPCI" :> 3) @@
    ("OTHER_CONF" :> 2)

\* share of one list item under a rule table
item_share(map, a) ==
    article_share(Pt(Get(map, a.type, 0)), a.num_authors, a.role,
                  Get(a, "has_primary", TRUE))

(***************************************************************************)
(* compute_points: articles (non-thesis), lines 200-214                    *)
(***************************************************************************)
articles(data) == Get(data, "articles", <<>>)

total_articles(data) ==
    SeqSum([i \in 1..Len(articles(data)) |-> item_share(base_map, articles(data)[i])])

\* the condition without its after_degree conjunct
is_1a_primary_after_no_flag(data, a) ==
    /\ a.type \in {"Q1", "Q2", "Q3", "Q4"}
    /\ a.role = "primary"

\* the condition of line 212
is_1a_primary_after(data, a) ==
    /\ a.type \in {"Q1", "Q2", "Q3", "Q4"}
    /\ a.role = "primary"
    /\ Get(data, "after_degree", TRUE)

count_1a_primary_after(data) ==
    SeqSum([i \in 1..Len(articles(data)) |->
              IF is_1a_primary_after(data, articles(data)[i]) THEN 1 ELSE 0])

total_1a_points_after(data) ==
    SeqSum([i \in 1..Len(articles(data)) |->
              IF is_1a_primary_after(data, articles(data)[i])
              THEN item_share(base_map, articles(data)[i]) ELSE 0])

(***************************************************************************)
(* compute_points: national article condition, lines 216-226               *)
(***************************************************************************)
nat_pub_count(data) ==
    SeqSum([i \in 1..Len(articles(data)) |->
              IF articles(data)[i].type \in {"TRDIZIN", "OTHER_NAT"} THEN 1 ELSE 0])

\* the TRDIZIN counter counting every national article
nat_trdizin_count_any_national(data) == nat_pub_count(data)

nat_trdizin_count(data) ==
    SeqSum([i \in 1..Len(articles(data)) |->
              IF /\ articles(data)[i].type \in {"TRDIZIN", "OTHER_NAT"}
                 /\ articles(data)[i].type = "TRDIZIN" THEN 1 ELSE 0])

nat_primary_count(data) ==
    SeqSum([i \in 1..Len(articles(data)) |->
              IF /\ articles(data)[i].type \in {"TRDIZIN", "OTHER_NAT"}
                 /\ articles(data)[i].role = "primary" THEN 1 ELSE 0])

(***************************************************************************)
(* compute_points: thesis publications, lines 228-240                      *)
(***************************************************************************)
thesis_articles(data) == Get(data, "thesis_articles", <<>>)

thesis_total_share(data) ==
    SeqSum([i \in 1..Len(thesis_articles(data)) |->
              item_share(thesis_map, thesis_articles(data)[i])])

\* the list with CPCI added
thesis_a_to_h_with_cpci ==
    {"SCIE_SSCI_AHCI", "ESCI_SCOPUS", "OTHER_INT", "TRDIZIN",
     "BKCI_BOOK", "BKCI_CHAPTER", "OTHER_BOOK", "OTHER_BOOK_CH", "CPCI"}

\* the list of line 238
thesis_a_to_h ==
    {"SCIE_SSCI_AHCI", "ESCI_SCOPUS", "OTHER_INT", "TRDIZIN",
     "BKCI_BOOK", "BKCI_CHAPTER", "OTHER_BOOK", "OTHER_BOOK_CH"}

thesis_any_ah_to_h(data) ==
    \E i \in 1..Len(thesis_articles(data)) : thesis_articles(data)[i].type \in thesis_a_to_h

thesis_total_capped(data) == cap(thesis_total_share(data), Pt(20))

(***************************************************************************)
(* compute_points: the count categories, lines 242-287                     *)
(***************************************************************************)
\* Citations (Madde 5), max 10
c_points_capped(data) ==
    LET c == Get(data, "citations", <<>>)
    IN  cap(Get(c, "wos_scopus", 0) * Pt(3) + Get(c, "bkci", 0) * Pt(2)
            + Get(c, "trdizin", 0) * Pt(2) + Get(c, "other", 0) * Pt(1), Pt(10))

\* Supervisions (Madde 6), max 10
s_points_capped(data) ==
    LET s == Get(data, "supervisions", <<>>)
    IN  cap(Get(s, "phd", 0) * Pt(5) + Get(s, "ms", 0) * Pt(3)
            + Get(s, "phd_as_second", 0) * Div(Pt(5), 2)
            + Get(s, "ms_as_second", 0) * Div(Pt(3), 2), Pt(10))

\* Projects (Madde 7), max 20
p_points_capped(data) ==
    LET p == Get(data, "projects", <<>>)
    IN  cap(Get(p, "eu_tubitak_coord", 0) * Pt(15)
            + Get(p, "eu_tubitak_researcher", 0) * Pt(10)
            + Get(p, "eu_tubitak_advisor", 0) * Pt(5)
            + Get(p, "intl_project_any", 0) * Pt(10)
            + Get(p, "public_private_rnd", 0) * Pt(5)
            + Get(p, "bap_coord", 0) * Pt(3), Pt(20))

\* Meetings (Madde 8), max 10
m_points_capped(data) ==
    LET m == Get(data, "meetings", <<>>)
    IN  cap(Get(m, "cpci", 0) * Pt(5) + Get(m, "other", 0) * Pt(3), Pt(10))

\* edu_points with the minimum of 2 forced
edu_points_floored(data) ==
    LET edu == Get(data, "education", <<>>)
        sum == (IF Get(edu, "semester_mode", 0) >= 4 THEN Pt(2) ELSE 0)
               + (IF Get(edu, "year_mode", 0) >= 2 THEN Pt(2) ELSE 0)
               + (IF Get(edu, "has_2yr_faculty", FALSE) THEN Pt(2) ELSE 0)
    IN  IF sum < Pt(2) THEN Pt(2) ELSE sum

\* Education (Madde 9), min 2, max 6
edu_points(data) ==
    LET edu == Get(data, "education", <<>>)
    IN  (IF Get(edu, "semester_mode", 0) >= 4 THEN Pt(2) ELSE 0)
        + (IF Get(edu, "year_mode", 0) >= 2 THEN Pt(2) ELSE 0)
        + (IF Get(edu, "has_2yr_faculty", FALSE) THEN Pt(2) ELSE 0)

edu_points_capped(data) == cap(edu_points(data), Pt(6))

\* Patents (Madde 10)
safe_div(x, n) == IF n # 0 /\ n > 0 THEN Div(x, n) ELSE 0

\* pat_points without the floor of 1 on the inventor counts
pat_points_no_floor(data) ==
    LET pat == Get(data, "patents", <<>>)
    IN  safe_div(Pt(20) * Get(pat, "intl", 0), Get(pat, "intl_inventors", 1))
        + safe_div(Pt(10) * Get(pat, "national", 0), Get(pat, "national_inventors", 1))
        + safe_div(Pt(5) * Get(pat, "utility", 0), Get(pat, "utility_inventors", 1))
        + safe_div(Pt(2) * Get(pat, "app", 0), Get(pat, "app_inventors", 1))

pat_points(data) ==
    LET pat == Get(data, "patents", <<>>)
    IN  safe_div(Pt(20) * Get(pat, "intl", 0), max(1, Get(pat, "intl_inventors", 1)))
        + safe_div(Pt(10) * Get(pat, "national", 0), max(1, Get(pat, "national_inventors", 1)))
        + safe_div(Pt(5) * Get(pat, "utility", 0), max(1, Get(pat, "utility_inventors", 1)))
        + safe_div(Pt(2) * Get(pat, "app", 0), max(1, Get(pat, "app_inventors", 1)))

\* the awards tally with 25 for every award and no ceiling
aw_points_uncapped(data) ==
    LET aw == Get(data, "awards", <<>>)
    IN  (Get(aw, "yok_phd", 0) + Get(aw, "yok_high", 0) + Get(aw, "tubitak_science", 0)
         + Get(aw, "tubitak_encour", 0) + Get(aw, "tuba_gebip", 0)
         + Get(aw, "tuba_tesep", 0)) * Pt(25)

\* Awards (Madde 11), max 25
aw_points_capped(data) ==
    LET aw == Get(data, "awards", <<>>)
    IN  cap((Get(aw, "yok_phd", 0) + Get(aw, "yok_high", 0) + Get(aw, "tubitak_science", 0)
             + Get(aw, "tubitak_encour", 0) + Get(aw, "tuba_gebip", 0)
             + Get(aw, "tuba_tesep", 0)) * Pt(25), Pt(25))

\* Editor (Madde 12), max 4
ed_points_capped(data) ==
    LET ed == Get(data, "editor", <<>>)
    IN  cap(Get(ed, "wos_scopus", 0) * Pt(2) + Get(ed, "bkci_scopus_book", 0) * Pt(1)
            + Get(ed, "trdizin", 0) * Pt(1), Pt(4))

\* Other (Madde 13), max 10
other_points_capped(data) ==
    LET oth == Get(data, "other", <<>>)
    IN  cap((IF Get(oth, "hindex5", FALSE) THEN Pt(5) ELSE 0)
            + (IF Get(oth, "top300_6m", FALSE) THEN Pt(5) ELSE 0), Pt(10))

(***************************************************************************)
(* compute_points: totals, checks, breakdown, lines 289-321                *)
(***************************************************************************)
total_excl_thesis(data) ==
    total_articles(data) + c_points_capped(data) + s_points_capped(data)
    + p_points_capped(data) + m_points_capped(data) + edu_points_capped(data)
    + pat_points(data) + aw_points_capped(data) + ed_points_capped(data)
    + other_points_capped(data)

\* the grand total adding the uncapped thesis share
total_all_uncapped_thesis(data) == total_excl_thesis(data) + thesis_total_share(data)

total_all(data) == total_excl_thesis(data) + thesis_total_capped(data)

checks(data) ==
    ("overall_min_100" :> (total_all(data) >= Pt(100))) @@
    ("min_90_after_excl_thesis" :> (total_excl_thesis(data) >= Pt(90))) @@
    ("1a_primary_at_least3_and_40pts" :>
        (count_1a_primary_after(data) >= 3 /\ total_1a_points_after(data) >= Pt(40))) @@
    ("2_national_at_least3_with2_trdizin_and_2_primary" :>
        (nat_pub_count(data) >= 3 /\ nat_trdizin_count(data) >= 2
         /\ nat_primary_count(data) >= 2)) @@
    ("3_thesis_at_least_one_from_a_h" :> thesis_any_ah_to_h(data)) @@
    ("5_citation_min5_after" :> (c_points_capped(data) >= Pt(5))) @@
    ("8_meeting_min5_after" :> (m_points_capped(data) >= Pt(5))) @@
    ("9_education_min2" :> (edu_points_capped(data) >= Pt(2)))

\* a breakdown that leaves the thesis entry out when there is no thesis item
breakdown_thesis_when_present(data) ==
    ("1_2_articles_total_share" :> Round4(total_articles(data))) @@
    (IF thesis_articles(data) = <<>> THEN <<>>
     ELSE ("3_thesis_share_capped20" :> Round4(thesis_total_capped(data)))) @@
    ("5_citations_capped10" :> Round4(c_points_capped(data))) @@
    ("6_supervisions_capped10" :> Round4(s_points_capped(data))) @@
    ("7_projects_capped20" :> Round4(p_points_capped(data))) @@
    ("8_meetings_capped10" :> Round4(m_points_capped(data))) @@
    ("9_education_capped6" :> Round4(edu_points_capped(data))) @@
    ("10_patents" :> Round4(pat_points(data))) @@
    ("11_awards_capped25" :> Round4(aw_points_capped(data))) @@
    ("12_editor_capped4" :> Round4(ed_points_capped(data))) @@
    ("13_other_capped10" :> Round4(other_points_capped(data))) @@
    ("TOTAL_EXCLUDING_THESIS" :> Round4(total_excl_thesis(data))) @@
    ("TOTAL_ALL" :> Round4(total_all(data)))

breakdown(data) ==
    ("1_2_articles_total_share" :> Round4(total_articles(data))) @@
    ("3_thesis_share_capped20" :> Round4(thesis_total_capped(data))) @@
    ("5_citations_capped10" :> Round4(c_points_capped(data))) @@
    ("6_supervisions_capped10" :> Round4(s_points_capped(data))) @@
    ("7_projects_capped20" :> Round4(p_points_capped(data))) @@
    ("8_meetings_capped10" :> Round4(m_points_capped(data))) @@
    ("9_education_capped6" :> Round4(edu_points_capped(data))) @@
    ("10_patents" :> Round4(pat_points(data))) @@
    ("11_awards_capped25" :> Round4(aw_points_capped(data))) @@
    ("12_editor_capped4" :> Round4(ed_points_capped(data))) @@
    ("13_other_capped10" :> Round4(other_points_capped(data))) @@
    ("TOTAL_EXCLUDING_THESIS" :> Round4(total_excl_thesis(data))) @@
    ("TOTAL_ALL" :> Round4(total_all(data)))

\* compute_points with a result that depends on the database
compute_points_counting_visits(data) ==
    [total |-> total_all(data) + Pt(db.visits),
     total_excluding_thesis |-> total_excl_thesis(data),
     checks |-> checks(data),
     breakdown |-> breakdown(data)]

\* the Totals the call returns
compute_points(data) ==
    [total |-> total_all(data),
     total_excluding_thesis |-> total_excl_thesis(data),
     checks |-> checks(data),
     breakdown |-> breakdown(data)]

\* the local variables of compute_points when it returns (unrounded)
compute_points_locals(data) ==
    [total_articles |-> total_articles(data),
     count_1a_primary_after |-> count_1a_primary_after(data),
     total_1a_points_after |-> total_1a_points_after(data),
     nat_primary_count |-> nat_primary_count(data),
     nat_trdizin_count |-> nat_trdizin_count(data),
     nat_pub_count |-> nat_pub_count(data),
     thesis_total_share |-> thesis_total_share(data),
     thesis_any_ah_to_h |-> thesis_any_ah_to_h(data),
     thesis_total_capped |-> thesis_total_capped(data),
     c_points_capped |-> c_points_capped(data),
     s_points_capped |-> s_points_capped(data),
     p_points_capped |-> p_points_capped(data),
     m_points_capped |-> m_points_capped(data),
     edu_points |-> edu_points(data),
     edu_points_capped |-> edu_points_capped(data),
     pat_points |-> pat_points(data),
     aw_points_capped |-> aw_points_capped(data),
     ed_points_capped |-> ed_points_capped(data),
     other_points_capped |-> other_points_capped(data)]

(***************************************************************************)
(* The calls.                                                              *)
(***************************************************************************)
Call_article_share ==
    /\ fn = "article_share"
    /\ pc = "call"
    /\ ret' = article_share(args.points, args.num_authors, args.role,
                            args.has_primary_author)
    /\ pc' = "returned"
    /\ UNCHANGED <<fn, args, locals, calls, app>>

\* the subscripts a["type"], a["num_authors"], a["role"] of lines 207-212 and
\* 233-235 raise KeyError on an item that lacks the key
ItemKeyErrors(a) ==
    IF "type" \notin DOMAIN a THEN <<"type">>
    ELSE IF "num_authors" \notin DOMAIN a THEN <<"num_authors">>
    ELSE IF "role" \notin DOMAIN a THEN <<"role">>
    ELSE <<>>

RECURSIVE ListKeyErrors(_)
ListKeyErrors(items) ==
    IF items = <<>> THEN <<>>
    ELSE IF ItemKeyErrors(Head(items)) # <<>> THEN ItemKeyErrors(Head(items))
    ELSE ListKeyErrors(Tail(items))

\* the key of the KeyError compute_points raises on data, <<>> if it raises none
KeyErrors(data) ==
    IF ListKeyErrors(articles(data)) # <<>> THEN ListKeyErrors(articles(data))
    ELSE ListKeyErrors(thesis_articles(data))

Call_compute_points ==
    /\ fn = "compute_points"
    /\ pc = "call"
    /\ IF KeyErrors(args) # <<>>
       THEN /\ pc' = "raised"
            /\ ret' = [exception |-> "KeyError", key |-> KeyErrors(args)[1]]
            /\ locals' = locals
       ELSE /\ pc' = "returned"
            /\ ret' = compute_points(args)
            /\ locals' = compute_points_locals(args)
    /\ calls' = calls \cup {[data |-> args, outcome |-> ret', visits |-> db.visits]}
    /\ UNCHANGED <<fn, args, app>>

Next == Call_article_share \/ Call_compute_points

(***************************************************************************)
(* Inputs.  The records are those main() builds from the form (lines       *)
(* 569-582, 377, 386-456); a payload may also leave after_degree out.      *)
(***************************************************************************)
Roles == {"primary", "second", "other", "equal"}

ArticleTypes == DOMAIN base_map \cup {"UNKNOWN"}

ThesisTypes == DOMAIN thesis_map \cup {"UNKNOWN"}

PointValues ==
    {0} \cup {base_map[t] : t \in DOMAIN base_map} \cup {thesis_map[t] : t \in DOMAIN thesis_map}

Items(types, counts, roles, flags) ==
    [type : types, num_authors : counts, has_primary : flags, role : roles]

SeqsUpTo(S, n) == UNION {[1..k -> S] : k \in 0..n}

ZeroPayload ==
    [after_degree |-> TRUE,
     articles |-> <<>>,
     thesis_articles |-> <<>>,
     citations |-> [wos_scopus |-> 0, bkci |-> 0, trdizin |-> 0, other |-> 0],
     supervisions |-> [phd |-> 0, ms |-> 0, phd_as_second |-> 0, ms_as_second |-> 0],
     projects |-> [eu_tubitak_coord |-> 0, eu_tubitak_researcher |-> 0,
                   eu_tubitak_advisor |-> 0, intl_project_any |-> 0,
                   public_private_rnd |-> 0, bap_coord |-> 0],
     meetings |-> [cpci |-> 0, other |-> 0],
     education |-> [semester_mode |-> 0, year_mode |-> 0, has_2yr_faculty |-> FALSE],
     patents |-> [intl |-> 0, national |-> 0, utility |-> 0, app |-> 0,
                  intl_inventors |-> 1, national_inventors |-> 1,
                  utility_inventors |-> 1, app_inventors |-> 1],
     awards |-> [yok_phd |-> 0, yok_high |-> 0, tubitak_science |-> 0,
                 tubitak_encour |-> 0, tuba_gebip |-> 0, tuba_tesep |-> 0],
     editor |-> [wos_scopus |-> 0, bkci_scopus_book |-> 0, trdizin |-> 0],
     other |-> [hindex5 |-> FALSE, top300_6m |-> FALSE]]

With(d, key, v) == [d EXCEPT ![key] = v]

Without(d, key) == [k \in DOMAIN d \ {key} |-> d[k]]

\* after_degree true, false, or left out of the payload
AfterDegreeChoices == {"true", "false", "absent"}

SetAfterDegree(d, choice) ==
    IF choice = "true" THEN With(d, "after_degree", TRUE)
    ELSE IF choice = "false" THEN With(d, "after_degree", FALSE)
    ELSE Without(d, "after_degree")

\* the calls of article_share on its own
ShareCalls ==
    [points : {Pt(v) : v \in PointValues},
     num_authors : (0 - 1)..MaxShareAuthors,
     role : Roles,
     has_primary_author : BOOLEAN]

\* payloads holding one non-thesis article and nothing else
OneArticlePayload(d) ==
    \E a \in Items(ArticleTypes, 1..MaxShareAuthors, Roles, BOOLEAN),
       ch \in AfterDegreeChoices :
        d = SetAfterDegree(With(ZeroPayload, "articles", <<a>>), ch)

\* payloads whose articles are of top-tier and other international types
TopTierPayload(d) ==
    \E as \in SeqsUpTo(Items({"Q1", "Q4", "ESCI"}, 1..MaxAuthors,
                             {"primary", "other"}, {TRUE}), MaxArticles),
       ch \in AfterDegreeChoices :
        d = SetAfterDegree(With(ZeroPayload, "articles", as), ch)

\* payloads whose articles are of national and other types
NationalPayload(d) ==
    \E as \in SeqsUpTo(Items({"TRDIZIN", "OTHER_NAT", "Q1"}, 1..MaxAuthors,
                             {"primary", "second"}, {TRUE}), MaxArticles),
       ch \in AfterDegreeChoices :
        d = SetAfterDegree(With(ZeroPayload, "articles", as), ch)

\* payloads holding thesis publications and nothing else
ThesisPayload(d) ==
    \E ts \in SeqsUpTo(Items(ThesisTypes, 1..MaxAuthors, {"primary", "other"}, {TRUE}),
                       MaxThesis) :
        d = With(ZeroPayload, "thesis_articles", ts)

\* payloads in which one count category is filled in and nothing else
CitationPayload(d) ==
    \E c \in [wos_scopus : 0..MaxCount, bkci : 0..MaxCount,
            trdizin : 0..MaxCount, other : 0..MaxCount] :
        d = With(ZeroPayload, "citations", c)

SupervisionPayload(d) ==
    \E x \in [phd : 0..MaxCount, ms : 0..MaxCount,
            phd_as_second : 0..MaxCount, ms_as_second : 0..MaxCount] :
        d = With(ZeroPayload, "supervisions", x)

ProjectPayload(d) ==
    \E x \in [eu_tubitak_coord : 0..MaxSmallCount, eu_tubitak_researcher : 0..MaxSmallCount,
            eu_tubitak_advisor : 0..MaxSmallCount, intl_project_any : 0..MaxSmallCount,
            public_private_rnd : 0..MaxSmallCount, bap_coord : 0..MaxSmallCount] :
        d = With(ZeroPayload, "projects", x)

MeetingPayload(d) ==
    \E x \in [cpci : 0..MaxCount, other : 0..MaxCount] :
        d = With(ZeroPayload, "meetings", x)

EducationPayload(d) ==
    \E x \in [semester_mode : 0..MaxCount, year_mode : 0..MaxCount,
            has_2yr_faculty : BOOLEAN] :
        d = With(ZeroPayload, "education", x)

PatentPayload(d) ==
    \E x \in [intl : 0..MaxPatents, national : 0..MaxPatents,
            utility : 0..MaxPatents, app : 0..MaxPatents,
            intl_inventors : 0..MaxAuthors, national_inventors : 0..MaxAuthors,
            utility_inventors : 0..MaxAuthors, app_inventors : 0..MaxAuthors] :
        d = With(ZeroPayload, "patents", x)

AwardPayload(d) ==
    \E x \in [yok_phd : 0..MaxSmallCount, yok_high : 0..MaxSmallCount,
            tubitak_science : 0..MaxSmallCount, tubitak_encour : 0..MaxSmallCount,
            tuba_gebip : 0..MaxSmallCount, tuba_tesep : 0..MaxSmallCount] :
        d = With(ZeroPayload, "awards", x)

EditorPayload(d) ==
    \E x \in [wos_scopus : 0..MaxCount, bkci_scopus_book : 0..MaxCount,
            trdizin : 0..MaxCount] :
        d = With(ZeroPayload, "editor", x)

OtherPayload(d) ==
    \E x \in [hindex5 : BOOLEAN, top300_6m : BOOLEAN] :
        d = With(ZeroPayload, "other", x)

CategoryPayload(d) ==
    \/ OneArticlePayload(d)
    \/ ThesisPayload(d)
    \/ CitationPayload(d)
    \/ SupervisionPayload(d)
    \/ ProjectPayload(d)
    \/ MeetingPayload(d)
    \/ EducationPayload(d)
    \/ PatentPayload(d)
    \/ AwardPayload(d)
    \/ EditorPayload(d)
    \/ OtherPayload(d)

\* payloads in which every category takes one of a few values, so that several
\* categories are filled in at once, some under and some over their ceiling
Item(t, n, r, h) == [type |-> t, num_authors |-> n, has_primary |-> h, role |-> r]

MixedPayloads ==
    [after_degree : BOOLEAN,
     articles : {<<>>, <<Item("Q1", 1, "primary", TRUE)>>,
                 <<Item("Q2", 2, "other", FALSE), Item("TRDIZIN", 2, "primary", TRUE),
                   Item("LETTER", 1, "equal", TRUE)>>},
     thesis_articles : {<<>>, <<Item("ESCI_SCOPUS", 2, "primary", TRUE)>>,
                        <<Item("SCIE_SSCI_AHCI", 1, "primary", TRUE),
                          Item("OTHER_INT", 2, "other", FALSE)>>},
     citations : {ZeroPayload.citations,
                  [ZeroPayload.citations EXCEPT !.other = 1],
                  [ZeroPayload.citations EXCEPT !.wos_scopus = 4]},
     supervisions : {ZeroPayload.supervisions,
                     [ZeroPayload.supervisions EXCEPT !.phd_as_second = 1],
                     [ZeroPayload.supervisions EXCEPT !.phd = 3]},
     projects : {ZeroPayload.projects,
                 [ZeroPayload.projects EXCEPT !.bap_coord = 1],
                 [ZeroPayload.projects EXCEPT !.eu_tubitak_coord = 2]},
     meetings : {ZeroPayload.meetings,
                 [ZeroPayload.meetings EXCEPT !.other = 1],
                 [ZeroPayload.meetings EXCEPT !.cpci = 3]},
     education : {ZeroPayload.education,
                  [semester_mode |-> 4, year_mode |-> 2, has_2yr_faculty |-> TRUE]},
     patents : {ZeroPayload.patents,
                [ZeroPayload.patents EXCEPT !.intl = 1, !.intl_inventors = 2]},
     awards : {ZeroPayload.awards, [ZeroPayload.awards EXCEPT !.tuba_gebip = 1]},
     editor : {ZeroPayload.editor, [ZeroPayload.editor EXCEPT !.wos_scopus = 3]},
     other : {ZeroPayload.other, [hindex5 |-> TRUE, top300_6m |-> TRUE]}]

\* payloads whose patents record holds every field, inventor counts from 0
PatentTierPayload(d) ==
    \E x \in [intl : 0..MaxPatents, national : 0..MaxPatents,
            utility : 0..MaxPatents, app : 0..MaxPatents,
            intl_inventors : 0..MaxInventors, national_inventors : 0..MaxInventors,
            utility_inventors : 0..MaxInventors, app_inventors : 0..MaxInventors] :
        d = With(ZeroPayload, "patents", x)

Restrict(f, keys) == [k \in keys |-> f[k]]

\* payloads whose patents record lacks some of its fields, or that have no
\* patents record
PatentPartialPayload(d) ==
    \/ d = Without(ZeroPayload, "patents")
    \/ \E c \in [intl : 0..MaxPatents, national : 0..MaxPatents,
                 utility : 0..MaxPatents, app : 0..MaxPatents],
          n \in 0..MaxInventors,
          keys \in SUBSET DOMAIN ZeroPayload.patents :
           d = With(ZeroPayload, "patents",
                    Restrict(c @@ [intl_inventors |-> n, national_inventors |-> n,
                                   utility_inventors |-> n, app_inventors |-> n], keys))

\* a payload with every category filled in
RichPayload ==
    [after_degree |-> FALSE,
     articles |-> <<Item("Q1", 1, "primary", TRUE), Item("TRDIZIN", 2, "other", TRUE)>>,
     thesis_articles |-> <<Item("ESCI_SCOPUS", 2, "primary", TRUE)>>,
     citations |-> [wos_scopus |-> 1, bkci |-> 1, trdizin |-> 1, other |-> 1],
     supervisions |-> [phd |-> 1, ms |-> 1, phd_as_second |-> 1, ms_as_second |-> 1],
     projects |-> [eu_tubitak_coord |-> 1, eu_tubitak_researcher |-> 1,
                   eu_tubitak_advisor |-> 1, intl_project_any |-> 1,
                   public_private_rnd |-> 1, bap_coord |-> 1],
     meetings |-> [cpci |-> 1, other |-> 1],
     education |-> [semester_mode |-> 4, year_mode |-> 2, has_2yr_faculty |-> TRUE],
     patents |-> [intl |-> 1, national |-> 1, utility |-> 1, app |-> 1,
                  intl_inventors |-> 2, national_inventors |-> 2,
                  utility_inventors |-> 2, app_inventors |-> 2],
     awards |-> [yok_phd |-> 1, yok_high |-> 0, tubitak_science |-> 0,
                 tubitak_encour |-> 0, tuba_gebip |-> 0, tuba_tesep |-> 0],
     editor |-> [wos_scopus |-> 1, bkci_scopus_book |-> 1, trdizin |-> 1],
     other |-> [hindex5 |-> TRUE, top300_6m |-> TRUE]]

SubRecordKeys ==
    {"citations", "supervisions", "projects", "meetings", "education", "patents",
     "awards", "editor", "other"}

\* payloads that lack some of the twelve keys, the empty payload among them
MissingKeysPayload(d) ==
    \E keys \in SUBSET DOMAIN RichPayload : d = Restrict(RichPayload, keys)

\* payloads in which one sub-record lacks some of its fields
MissingFieldsPayload(d) ==
    \E k \in SubRecordKeys :
        \E fields \in SUBSET DOMAIN RichPayload[k] :
            d = With(RichPayload, k, Restrict(RichPayload[k], fields))

\* items whose type is known, unknown or left out, with or without has_primary
LooseItems(known) ==
    {Restrict(a, keys) :
       a \in Items({known, "UNKNOWN"}, 1..MaxAuthors, {"primary", "other"}, {FALSE}),
       keys \in {{"type", "num_authors", "role", "has_primary"},
                 {"type", "num_authors", "role"},
                 {"num_authors", "role", "has_primary"}}}

\* payloads whose lists hold such items
LooseItemsPayload(d) ==
    \/ \E as \in SeqsUpTo(LooseItems("Q1"), MaxThesis) :
           d = With(ZeroPayload, "articles", as)
    \/ \E ts \in SeqsUpTo(LooseItems("TRDIZIN"), MaxThesis) :
           d = With(ZeroPayload, "thesis_articles", ts)

(***************************************************************************)
(* The application state around compute_points: the database helpers       *)
(* (lines 34-146) and the session.                                         *)
(***************************************************************************)
MaxRecords == 2

MaxVisits == 1

ADMIN_USER == "admin"

ADMIN_PASS == "admin"

UserNames == {ADMIN_USER, "ayse"}

Passwords == {ADMIN_PASS, "secret"}

\* os.urandom(16).hex(): one value of the salt stands for all
Salts == {"salt"}

\* the digest of salt + password, kept as the text it digests: equal digests
\* for equal texts, different digests for different texts
sha256_hash(password, salt) == <<"sha256", salt, password>>

\* json.dumps and json.loads on dicts with string keys, lists, ints and bools
json_dumps(v) == [json |-> v]

json_loads(t) == t.json

\* the database after init_db() has run on a fresh file: the visits row at 0,
\* the bootstrapped admin, no records
init_db ==
    [users |-> (ADMIN_USER :> [password_hash |-> sha256_hash(ADMIN_PASS, "salt"),
                               salt |-> "salt", is_admin |-> TRUE]),
     records |-> <<>>,
     seq |-> 0,
     visits |-> 0]

NoSession == [visited |-> FALSE, user |-> None]

\* before the first script run: nothing rendered, the widgets at their
\* defaults (lines 359-456: no articles, counts 0, inventors 1, boxes clear)
NoPage == [form |-> ZeroPayload, buttons |-> {}, calc |-> None, run |-> "none",
           records_before |-> <<>>]

increment_visit(d) == [d EXCEPT !.visits = @ + 1]

get_visits(d) == d.visits

\* INSERT fails with IntegrityError on a taken username: the table is unchanged
register_user(d, username, password, salt) ==
    IF username \in DOMAIN d.users THEN d
    ELSE [d EXCEPT !.users = @ @@ (username :>
              [password_hash |-> sha256_hash(password, salt), salt |-> salt,
               is_admin |-> FALSE])]

register_user_ok(d, username) == username \notin DOMAIN d.users

authenticate(d, username, password) ==
    IF username \notin DOMAIN d.users THEN None
    ELSE IF sha256_hash(password, d.users[username].salt)
                = d.users[username].password_hash
         THEN [username |-> username, is_admin |-> d.users[username].is_admin]
         ELSE None

save_record(d, owner, payload, total, breakdown_) ==
    [d EXCEPT !.seq = @ + 1,
              !.records = Append(@, [id |-> d.seq + 1, owner |-> owner,
                                     payload |-> json_dumps(payload),
                                     total |-> total,
                                     breakdown |-> json_dumps(breakdown_)])]

list_records(d, owner) ==
    SelectSeq(d.records, LAMBDA r : owner = None \/ r.owner = owner)

delete_record(d, record_id) ==
    [d EXCEPT !.records = SelectSeq(@, LAMBDA r : r.id # record_id)]

RecordIds(d) == {d.records[i].id : i \in 1..Len(d.records)}

(***************************************************************************)
(* The helpers as operations that interleave with calls of compute_points. *)
(***************************************************************************)
OpPayloads == {ZeroPayload, RichPayload}

Invoke_compute_points ==
    /\ pc # "call"
    /\ \E d \in OpPayloads :
          /\ fn' = "compute_points"
          /\ args' = d
    /\ pc' = "call"
    /\ ret' = None
    /\ locals' = None
    /\ UNCHANGED <<calls, app>>

Op_register_user ==
    /\ \E u \in UserNames, p \in Passwords, salt \in Salts :
          db' = register_user(db, u, p, salt)
    /\ UNCHANGED <<fn, args, pc, ret, locals, calls, session, page>>

Op_save_record ==
    /\ db.seq < MaxRecords
    /\ \E u \in DOMAIN db.users, d \in OpPayloads :
          db' = save_record(db, u, d, compute_points(d).total,
                            compute_points(d).breakdown)
    /\ UNCHANGED <<fn, args, pc, ret, locals, calls, session, page>>

Op_delete_record ==
    /\ \E id \in RecordIds(db) : db' = delete_record(db, id)
    /\ UNCHANGED <<fn, args, pc, ret, locals, calls, session, page>>

Op_increment_visit ==
    /\ db.visits < MaxVisits
    /\ db' = increment_visit(db)
    /\ UNCHANGED <<fn, args, pc, ret, locals, calls, session, page>>

NextOps ==
    \/ Invoke_compute_points
    \/ Call_compute_points
    \/ Op_register_user
    \/ Op_save_record
    \/ Op_delete_record
    \/ Op_increment_visit

(***************************************************************************)
(* The Streamlit script main() (lines 510-626) and login_ui (326-354),     *)
(* admin_panel (461-508).  Every event of the browser session reruns the   *)
(* script from the top; st.button(label) is True only in the run that the  *)
(* click on that button triggered, and only a button the last run rendered *)
(* can be clicked.  Button labels are written in ASCII.                    *)
(***************************************************************************)
FormPayloads == {ZeroPayload, RichPayload}

set_admin(d, username, is_admin) ==
    IF username \in DOMAIN d.users
    THEN [d EXCEPT !.users[username].is_admin = is_admin]
    ELSE d

reset_password(d, username, new_password, salt) ==
    IF username \in DOMAIN d.users
    THEN [d EXCEPT !.users[username].password_hash = sha256_hash(new_password, salt),
                   !.users[username].salt = salt]
    ELSE d

\* st.button(label) in the run that the event click triggered
button(label, click) == click = label

\* the buttons a run renders that ends with the session s
Buttons(s) ==
    IF s.user = None
    THEN {"Admin olarak otomatik giris", "Giris", "Kayit Ol"}
    ELSE {"Cikis", "Hesapla"}
         \cup (IF s.user.is_admin THEN {"Admin Yap/Kaldir", "Sifirla"} ELSE {})

\* one script run, triggered by the event click with the text inputs in_
\* (a username and a password that are not empty, the password repeated
\* correctly),
\* together with the rerun that st.experimental_rerun() starts: the
\* database, session and page it ends with
main(d0, s0, pg, click, in_) ==
    LET d == IF s0.visited THEN d0 ELSE increment_visit(d0)
        s == [s0 EXCEPT !.visited = TRUE]
        form == IF click = "form" THEN in_.form ELSE pg.form
        Out(d_, s_, calc_, results) ==
            [db |-> d_, session |-> s_,
             page |-> [form |-> form,
                       buttons |-> Buttons(s_)
                                   \cup (IF results THEN {"Kaydet"} ELSE {}),
                       calc |-> calc_,
                       run |-> click,
                       records_before |-> d0.records]]
        user == s.user
    IN  IF user = None THEN
            IF button("Admin olarak otomatik giris", click) THEN
                LET info == authenticate(d, ADMIN_USER, ADMIN_PASS) IN
                IF info # None
                THEN Out(d, [s EXCEPT !.user = info], pg.calc, FALSE)
                ELSE Out(d, s, pg.calc, FALSE)
            ELSE IF button("Giris", click) THEN
                LET info == authenticate(d, in_.username, in_.password) IN
                IF info # None
                THEN Out(d, [s EXCEPT !.user = info], pg.calc, FALSE)
                ELSE Out(d, s, pg.calc, FALSE)
            ELSE IF button("Kayit Ol", click) THEN
                Out(register_user(d, in_.username, in_.password, in_.salt), s,
                    pg.calc, FALSE)
            ELSE Out(d, s, pg.calc, FALSE)
        ELSE IF button("Cikis", click) THEN
            Out(d, [s EXCEPT !.user = None], pg.calc, FALSE)
        ELSE IF button("Hesapla", click) THEN
            LET payload == form
                totals == compute_points(payload)
            IN  IF button("Kaydet", click)
                THEN Out(save_record(d, user.username, payload, totals.total,
                                     totals.breakdown),
                         s, [payload |-> payload, totals |-> totals], TRUE)
                ELSE Out(d, s, [payload |-> payload, totals |-> totals], TRUE)
        ELSE IF user.is_admin /\ button("Admin Yap/Kaldir", click) THEN
            Out(set_admin(d, in_.username, ~d.users[in_.username].is_admin), s,
                pg.calc, FALSE)
        ELSE IF user.is_admin /\ button("Sifirla", click) THEN
            Out(reset_password(d, in_.username, in_.password, in_.salt), s,
                pg.calc, FALSE)
        ELSE Out(d, s, pg.calc, FALSE)

NoInput == [username |-> "", password |-> "", salt |-> "", form |-> ZeroPayload]

\* the event click reaches the session and the script runs
Run(click, in_) ==
    /\ db' = main(db, session, page, click, in_).db
    /\ session' = main(db, session, page, click, in_).session
    /\ page' = main(db, session, page, click, in_).page
    /\ UNCHANGED <<fn, args, pc, ret, locals, calls>>

OpenPage ==
    /\ page.run = "none"
    /\ Run("load", NoInput)

ClickAdminLogin ==
    /\ "Admin olarak otomatik giris" \in page.buttons
    /\ Run("Admin olarak otomatik giris", NoInput)

ClickGiris ==
    /\ "Giris" \in page.buttons
    /\ \E u \in UserNames, p \in Passwords :
          Run("Giris", [NoInput EXCEPT !.username = u, !.password = p])

ClickKayitOl ==
    /\ "Kayit Ol" \in page.buttons
    /\ \E u \in UserNames, p \in Passwords, salt \in Salts :
          Run("Kayit Ol", [NoInput EXCEPT !.username = u, !.password = p,
                                          !.salt = salt])

ClickCikis ==
    /\ "Cikis" \in page.buttons
    /\ Run("Cikis", NoInput)

EditForm ==
    /\ "Hesapla" \in page.buttons
    /\ \E f \in FormPayloads \ {page.form} :
          Run("form", [NoInput EXCEPT !.form = f])

ClickHesapla ==
    /\ "Hesapla" \in page.buttons
    /\ Run("Hesapla", NoInput)

ClickKaydet ==
    /\ "Kaydet" \in page.buttons
    /\ Run("Kaydet", NoInput)

ClickSetAdmin ==
    /\ "Admin Yap/Kaldir" \in page.buttons
    /\ \E u \in DOMAIN db.users :
          Run("Admin Yap/Kaldir", [NoInput EXCEPT !.username = u])

ClickResetPassword ==
    /\ "Sifirla" \in page.buttons
    /\ \E u \in DOMAIN db.users, p \in Passwords, salt \in Salts :
          Run("Sifirla", [NoInput EXCEPT !.username = u, !.password = p,
                                         !.salt = salt])

\* The 'Sil' and 'Bu kaydi sil' buttons (lines 505, 605) are rendered once per
\* stored record; the records table of this session stays empty, so no run
\* renders one.
NextUI ==
    \/ OpenPage
    \/ ClickAdminLogin
    \/ ClickGiris
    \/ ClickKayitOl
    \/ ClickCikis
    \/ EditForm
    \/ ClickHesapla
    \/ ClickKaydet
    \/ ClickSetAdmin
    \/ ClickResetPassword

(***************************************************************************)
(* Initial states and specifications: a call of article_share or of        *)
(* compute_points is pending with its arguments.                           *)
(***************************************************************************)
InitApp ==
    /\ calls = {}
    /\ db = init_db
    /\ session = NoSession
    /\ page = NoPage

InitCall ==
    /\ pc = "call"
    /\ ret = None
    /\ locals = None
    /\ InitApp

InitShare == fn = "article_share" /\ args \in ShareCalls

Init ==
    /\ InitCall
    /\ \/ InitShare
       \/ fn = "compute_points" /\ OneArticlePayload(args)

Spec == Init /\ [][Next]_vars

InitTopTier ==
    /\ InitCall
    /\ \/ InitShare
       \/ fn = "compute_points" /\ TopTierPayload(args)

SpecTopTier == InitTopTier /\ [][Next]_vars

InitNational ==
    /\ InitCall
    /\ \/ InitShare
       \/ fn = "compute_points" /\ NationalPayload(args)

SpecNational == InitNational /\ [][Next]_vars

InitCategories ==
    /\ InitCall
    /\ \/ InitShare
       \/ fn = "compute_points" /\ CategoryPayload(args)

SpecCategories == InitCategories /\ [][Next]_vars

InitMixed ==
    /\ InitCall
    /\ \/ InitShare
       \/ fn = "compute_points" /\ args \in MixedPayloads

SpecMixed == InitMixed /\ [][Next]_vars

InitPatents ==
    /\ InitCall
    /\ \/ InitShare
       \/ fn = "compute_points" /\ (PatentTierPayload(args) \/ PatentPartialPayload(args))

SpecPatents == InitPatents /\ [][Next]_vars

InitMissing ==
    /\ InitCall
    /\ \/ InitShare
       \/ /\ fn = "compute_points"
          /\ \/ MissingKeysPayload(args)
             \/ MissingFieldsPayload(args)
             \/ LooseItemsPayload(args)

SpecMissing == InitMissing /\ [][Next]_vars

InitOps ==
    /\ fn = "compute_points"
    /\ args \in OpPayloads
    /\ InitCall

SpecOps == InitOps /\ [][NextOps]_vars

\* a fresh database and a browser session that has not loaded the page yet
InitUI ==
    /\ fn = "compute_points"
    /\ args = ZeroPayload
    /\ pc = "idle"
    /\ ret = None
    /\ locals = None
    /\ InitApp

SpecUI == InitUI /\ [][NextUI]_vars

(***************************************************************************)
(* Properties.                                                             *)
(***************************************************************************)
Returned(f) == fn = f /\ pc = "returned"

\* C1: article_share returns 0 when the author count is <= 0 and returns the
\* base point value unchanged when the author count is exactly 1, whatever the
\* base value, the role and the primary-designated flag.
C1_ShareDegenerateAndSole ==
    Returned("article_share") =>
        /\ args.num_authors <= 0 => ret = 0
        /\ args.num_authors = 1 => ret = args.points

\* a sole author with a non-primary role and a primary designated got the full 30
C1_Witness ==
    /\ Returned("article_share")
    /\ args.num_authors = 1
    /\ args.role = "other"
    /\ args.has_primary_author
    /\ args.points = Pt(30)
    /\ ret = Pt(30)

\* C2: for n >= 2 authors article_share is base/n when no primary is
\* designated; with a primary designated it is 0.8*base (primary) or 0.5*base
\* (any other role) for n = 2, and 0.5*base (primary) or (0.5*base)/(n-1)
\* (any other role) for n >= 3.  Stated by cross-multiplication.
C2_ShareTable ==
    (Returned("article_share") /\ args.num_authors >= 2) =>
        LET n == args.num_authors
            base == args.points
        IN  /\ ~args.has_primary_author => ret * n = base
            /\ (args.has_primary_author /\ n = 2 /\ args.role = "primary")
                    => ret * 10 = base * 8
            /\ (args.has_primary_author /\ n = 2 /\ args.role # "primary")
                    => ret * 2 = base
            /\ (args.has_primary_author /\ n >= 3 /\ args.role = "primary")
                    => ret * 2 = base
            /\ (args.has_primary_author /\ n >= 3 /\ args.role # "primary")
                    => ret * 2 * (n - 1) = base

\* a non-primary author among three, primary designated, got a quarter of 30
C2_Witness ==
    /\ Returned("article_share")
    /\ args.num_authors = 3
    /\ args.role = "second"
    /\ args.has_primary_author
    /\ args.points = Pt(30)
    /\ ret * 4 = Pt(30)

\* the raw (uncapped) value of each count category, from the payload and the
\* weights of the point table
MinOf(a, b) == IF a <= b THEN a ELSE b

RawCitations(d) ==
    Scale * (3 * d.citations.wos_scopus + 2 * d.citations.bkci
             + 2 * d.citations.trdizin + d.citations.other)

RawSupervisions(d) ==
    (Scale * (10 * d.supervisions.phd + 6 * d.supervisions.ms
              + 5 * d.supervisions.phd_as_second + 3 * d.supervisions.ms_as_second)) \div 2

RawProjects(d) ==
    Scale * (15 * d.projects.eu_tubitak_coord + 10 * d.projects.eu_tubitak_researcher
             + 5 * d.projects.eu_tubitak_advisor + 10 * d.projects.intl_project_any
             + 5 * d.projects.public_private_rnd + 3 * d.projects.bap_coord)

RawMeetings(d) == Scale * (5 * d.meetings.cpci + 3 * d.meetings.other)

EducationBonuses(d) ==
    (IF d.education.semester_mode >= 4 THEN 1 ELSE 0)
    + (IF d.education.year_mode >= 2 THEN 1 ELSE 0)
    + (IF d.education.has_2yr_faculty THEN 1 ELSE 0)

RawAwards(d) ==
    Scale * 25 * (d.awards.yok_phd + d.awards.yok_high + d.awards.tubitak_science
                  + d.awards.tubitak_encour + d.awards.tuba_gebip + d.awards.tuba_tesep)

RawEditor(d) ==
    Scale * (2 * d.editor.wos_scopus + d.editor.bkci_scopus_book + d.editor.trdizin)

RawOther(d) ==
    Scale * ((IF d.other.hindex5 THEN 5 ELSE 0) + (IF d.other.top300_6m THEN 5 ELSE 0))

\* C3: every capped tally equals min(raw value, ceiling) and so lies in
\* [0, ceiling], with ceilings thesis 20, citations 10, supervisions 10,
\* projects 20, meetings 10, education 6, awards 25, editorship 4, other 10;
\* the articles and patents tallies are non-negative; thesis shares summing to
\* 25 give exactly 20, and 4 top-tier citations alone give exactly 10.
C3_CappedTallies ==
    Returned("compute_points") =>
        /\ locals.thesis_total_share >= 0
        /\ locals.thesis_total_capped = MinOf(locals.thesis_total_share, Pt(20))
        /\ locals.c_points_capped = MinOf(RawCitations(args), Pt(10))
        /\ locals.s_points_capped = MinOf(RawSupervisions(args), Pt(10))
        /\ locals.p_points_capped = MinOf(RawProjects(args), Pt(20))
        /\ locals.m_points_capped = MinOf(RawMeetings(args), Pt(10))
        /\ locals.edu_points_capped = MinOf(Pt(2) * EducationBonuses(args), Pt(6))
        /\ locals.aw_points_capped = MinOf(RawAwards(args), Pt(25))
        /\ locals.ed_points_capped = MinOf(RawEditor(args), Pt(4))
        /\ locals.other_points_capped = MinOf(RawOther(args), Pt(10))
        /\ locals.thesis_total_capped \in 0..Pt(20)
        /\ locals.c_points_capped \in 0..Pt(10)
        /\ locals.s_points_capped \in 0..Pt(10)
        /\ locals.p_points_capped \in 0..Pt(20)
        /\ locals.m_points_capped \in 0..Pt(10)
        /\ locals.edu_points_capped \in 0..Pt(6)
        /\ locals.aw_points_capped \in 0..Pt(25)
        /\ locals.ed_points_capped \in 0..Pt(4)
        /\ locals.other_points_capped \in 0..Pt(10)
        /\ locals.total_articles >= 0
        /\ locals.pat_points >= 0
        /\ locals.thesis_total_share = Pt(25) => locals.thesis_total_capped = Pt(20)
        /\ args.citations = [wos_scopus |-> 4, bkci |-> 0, trdizin |-> 0, other |-> 0]
               => locals.c_points_capped = Pt(10)

\* thesis items whose shares sum to 25 were capped to 20
C3_Witness ==
    /\ Returned("compute_points")
    /\ Len(args.thesis_articles) = 2
    /\ locals.thesis_total_share = Pt(25)
    /\ locals.thesis_total_capped = Pt(20)

\* C4: grand total = total excluding thesis + capped thesis total, and the
\* total excluding thesis is the sum of the articles, citations, supervisions,
\* projects, meetings, education, patents, awards, editorship and other
\* tallies, each after its cap.
C4_TotalsAddUp ==
    Returned("compute_points") =>
        /\ ret.total = ret.total_excluding_thesis + locals.thesis_total_capped
        /\ ret.total_excluding_thesis =
              locals.total_articles + locals.c_points_capped + locals.s_points_capped
              + locals.p_points_capped + locals.m_points_capped
              + locals.edu_points_capped + locals.pat_points + locals.aw_points_capped
              + locals.ed_points_capped + locals.other_points_capped

\* several categories are filled in, the thesis share and the citations are
\* over their ceilings
C4_Witness ==
    /\ Returned("compute_points")
    /\ locals.thesis_total_share > Pt(20)
    /\ RawCitations(args) > Pt(10)
    /\ locals.total_articles > 0
    /\ locals.pat_points > 0
    /\ ret.total = ret.total_excluding_thesis + Pt(20)

CheckNames ==
    {"overall_min_100", "min_90_after_excl_thesis", "1a_primary_at_least3_and_40pts",
     "2_national_at_least3_with2_trdizin_and_2_primary", "3_thesis_at_least_one_from_a_h",
     "5_citation_min5_after", "8_meeting_min5_after", "9_education_min2"}

CategoryNames ==
    {"1_2_articles_total_share", "3_thesis_share_capped20", "5_citations_capped10",
     "6_supervisions_capped10", "7_projects_capped20", "8_meetings_capped10",
     "9_education_capped6", "10_patents", "11_awards_capped25", "12_editor_capped4",
     "13_other_capped10"}

TotalNames == {"TOTAL_EXCLUDING_THESIS", "TOTAL_ALL"}

\* C5 (as amended): whatever the payload, the checks are exactly the 8 named
\* booleans and the breakdown has exactly 13 numeric entries: 11 category
\* entries and the two totals.
C5_FixedKeys ==
    Returned("compute_points") =>
        /\ DOMAIN ret.checks = CheckNames
        /\ Cardinality(CheckNames) = 8
        /\ \A k \in DOMAIN ret.checks : ret.checks[k] \in BOOLEAN
        /\ DOMAIN ret.breakdown = CategoryNames \cup TotalNames
        /\ Cardinality(DOMAIN ret.breakdown) = 13
        /\ \A k \in DOMAIN ret.breakdown : ret.breakdown[k] \in Int

\* a result for a payload without thesis items, and with awards
C5_Witness ==
    /\ Returned("compute_points")
    /\ args.thesis_articles = <<>>
    /\ args.awards.tuba_gebip = 1
    /\ ret.breakdown["11_awards_capped25"] = 250000

\* C5 (as stated): the checks are 8 named booleans and the breakdown has 13
\* category entries plus the two totals.
C5_ThirteenCategoriesPlusTotals ==
    Returned("compute_points") =>
        /\ Cardinality(DOMAIN ret.checks) = 8
        /\ TotalNames \subseteq DOMAIN ret.breakdown
        /\ Cardinality(DOMAIN ret.breakdown \ TotalNames) = 13

RECURSIVE SumOver(_, _)
SumOver(S, f) ==
    IF S = {} THEN 0
    ELSE LET i == CHOOSE j \in S : TRUE IN f[i] + SumOver(S \ {i}, f)

\* the non-thesis articles of a top-tier type held with role primary
PrimaryTopTier(d) ==
    {i \in 1..Len(d.articles) :
        d.articles[i].type \in {"Q1", "Q2", "Q3", "Q4"} /\ d.articles[i].role = "primary"}

\* the share-adjusted points of the non-thesis articles
ArticleShares(d) ==
    [i \in 1..Len(d.articles) |->
        article_share(Pt(base_map[d.articles[i].type]), d.articles[i].num_authors,
                      d.articles[i].role, d.articles[i].has_primary)]

\* C6: check 1a_primary_at_least3_and_40pts is true exactly when the payload
\* is marked post-degree (after_degree true; a payload that leaves the flag
\* out counts as marked, line 212), at least 3 non-thesis Q1-Q4 articles are
\* held as primary author and the shares of those articles sum to >= 40; with
\* after_degree false the check is false whatever the articles are.
C6_Check1a ==
    Returned("compute_points") =>
        /\ ret.checks["1a_primary_at_least3_and_40pts"] =
              (/\ Get(args, "after_degree", TRUE)
               /\ Cardinality(PrimaryTopTier(args)) >= 3
               /\ SumOver(PrimaryTopTier(args), ArticleShares(args)) >= Pt(40))
        /\ ("after_degree" \in DOMAIN args /\ ~args.after_degree)
              => ~ret.checks["1a_primary_at_least3_and_40pts"]

\* three top-tier primary articles worth 30 + 8 + 10, marked post-degree,
\* next to none: the check is true
C6_Witness ==
    /\ Returned("compute_points")
    /\ "after_degree" \in DOMAIN args /\ args.after_degree
    /\ Cardinality(PrimaryTopTier(args)) = 3
    /\ SumOver(PrimaryTopTier(args), ArticleShares(args)) = Pt(48)
    /\ ret.checks["1a_primary_at_least3_and_40pts"]

\* C7: for every role, a payload holding exactly one non-thesis top-tier
\* article with 1 author, marked post-degree, and nothing else adds the full
\* base value to the articles tally, counts the article in the primary-article
\* counter (counter = 1), and leaves the checks overall_min_100,
\* min_90_after_excl_thesis and 1a_primary_at_least3_and_40pts false.
C7_SoleTopTierArticle ==
    (/\ Returned("compute_points")
     /\ "after_degree" \in DOMAIN args /\ args.after_degree
     /\ Len(args.articles) = 1
     /\ args.articles[1].type \in {"Q1", "Q2", "Q3", "Q4"}
     /\ args.articles[1].num_authors = 1
     /\ args = With(ZeroPayload, "articles", args.articles)) =>
        /\ locals.total_articles = Pt(base_map[args.articles[1].type])
        /\ locals.count_1a_primary_after = 1
        /\ ~ret.checks["overall_min_100"]
        /\ ~ret.checks["min_90_after_excl_thesis"]
        /\ ~ret.checks["1a_primary_at_least3_and_40pts"]

\* the national articles of the non-thesis list
National(d) ==
    {i \in 1..Len(d.articles) : d.articles[i].type \in {"TRDIZIN", "OTHER_NAT"}}

\* C8: check 2_national_at_least3_with2_trdizin_and_2_primary is true exactly
\* when the non-thesis list has at least 3 national articles (TRDIZIN or
\* OTHER_NAT), at least 2 of them TRDIZIN and at least 2 of them with role
\* primary; the flag after_degree and the author counts play no part.
C8_CheckNational ==
    Returned("compute_points") =>
        ret.checks["2_national_at_least3_with2_trdizin_and_2_primary"] =
            (/\ Cardinality(National(args)) >= 3
             /\ Cardinality({i \in National(args) : args.articles[i].type = "TRDIZIN"}) >= 2
             /\ Cardinality({i \in National(args) : args.articles[i].role = "primary"}) >= 2)

\* three national articles, two TRDIZIN, two primary, several authors, not
\* post-degree: the check is true
C8_Witness ==
    /\ Returned("compute_points")
    /\ "after_degree" \in DOMAIN args /\ ~args.after_degree
    /\ Cardinality(National(args)) = 3
    /\ Cardinality({i \in National(args) : args.articles[i].type = "TRDIZIN"}) = 2
    /\ Cardinality({i \in National(args) : args.articles[i].role = "primary"}) = 2
    /\ \A i \in National(args) : args.articles[i].num_authors = 2
    /\ ret.checks["2_national_at_least3_with2_trdizin_and_2_primary"]

\* C9: check 3_thesis_at_least_one_from_a_h is true exactly when some thesis
\* item has one of the eight qualifying types, every defined thesis type but
\* CPCI and OTHER_CONF; it is false for the empty list and for a list of only
\* CPCI, OTHER_CONF or unknown types.
C9_CheckThesis ==
    Returned("compute_points") =>
        /\ ret.checks["3_thesis_at_least_one_from_a_h"] =
              (\E i \in 1..Len(args.thesis_articles) :
                  args.thesis_articles[i].type \in DOMAIN thesis_map \ {"CPCI", "OTHER_CONF"})
        /\ Cardinality(DOMAIN thesis_map \ {"CPCI", "OTHER_CONF"}) = 8
        /\ (\A i \in 1..Len(args.thesis_articles) :
                args.thesis_articles[i].type \in {"CPCI", "OTHER_CONF", "UNKNOWN"})
              => ~ret.checks["3_thesis_at_least_one_from_a_h"]

\* a list of a CPCI item and an item of unknown type: the check is false
C9_Witness ==
    /\ Returned("compute_points")
    /\ Len(args.thesis_articles) = 2
    /\ args.thesis_articles[1].type = "CPCI"
    /\ args.thesis_articles[2].type = "UNKNOWN"
    /\ ~ret.checks["3_thesis_at_least_one_from_a_h"]

\* C10: the education tally is 2 per bonus earned (>= 4 semesters, >= 2
\* years, 2-year faculty flag), capped at 6, so one of 0, 2, 4, 6; no bonus
\* scores 0, not 2; check 9_education_min2 is true exactly when the tally
\* is >= 2.
C10_Education ==
    Returned("compute_points") =>
        /\ locals.edu_points_capped = MinOf(Pt(2) * EducationBonuses(args), Pt(6))
        /\ locals.edu_points_capped \in {0, Pt(2), Pt(4), Pt(6)}
        /\ EducationBonuses(args) = 0 => locals.edu_points_capped = 0
        /\ ret.checks["9_education_min2"] = (locals.edu_points_capped >= Pt(2))
        /\ ret.breakdown["9_education_capped6"] = 20000 * EducationBonuses(args)

\* 3 semesters, 1 year, no faculty flag: no bonus, the tally is 0 and the
\* check is false
C10_Witness ==
    /\ Returned("compute_points")
    /\ args.education = [semester_mode |-> 3, year_mode |-> 1, has_2yr_faculty |-> FALSE]
    /\ locals.edu_points_capped = 0
    /\ ret.breakdown["9_education_capped6"] = 0
    /\ ~ret.checks["9_education_min2"]


\* the patents record of a payload, the number of patents of a tier and the
\* inventor count the tier is divided by
PatentsOf(d) == IF "patents" \in DOMAIN d THEN d.patents ELSE <<>>

TierCount(d, key) == IF key \in DOMAIN PatentsOf(d) THEN PatentsOf(d)[key] ELSE 0

TierInventors(d, key) ==
    IF key \in DOMAIN PatentsOf(d) /\ PatentsOf(d)[key] >= 1 THEN PatentsOf(d)[key] ELSE 1

\* C11: the patents tally is the uncapped sum over the four tiers of
\* count * weight / max(1, inventors), weights 20, 10, 5, 2; an inventor count
\* of 0 or a missing one counts as 1; intl=1 gives 5 with 4 inventors and 20
\* with 0 inventors.  The sum is stated by cross-multiplication.
C11_Patents ==
    Returned("compute_points") =>
        LET e1 == TierInventors(args, "intl_inventors")
            e2 == TierInventors(args, "national_inventors")
            e3 == TierInventors(args, "utility_inventors")
            e4 == TierInventors(args, "app_inventors")
            only_intl == /\ TierCount(args, "intl") = 1
                         /\ TierCount(args, "national") = 0
                         /\ TierCount(args, "utility") = 0
                         /\ TierCount(args, "app") = 0
        IN  /\ locals.pat_points * e1 * e2 * e3 * e4 =
                  Scale * (20 * TierCount(args, "intl") * e2 * e3 * e4
                           + 10 * TierCount(args, "national") * e1 * e3 * e4
                           + 5 * TierCount(args, "utility") * e1 * e2 * e4
                           + 2 * TierCount(args, "app") * e1 * e2 * e3)
            /\ (only_intl /\ "intl_inventors" \in DOMAIN PatentsOf(args)
                 /\ PatentsOf(args)["intl_inventors"] = 4) => locals.pat_points = Pt(5)
            /\ (only_intl /\ "intl_inventors" \in DOMAIN PatentsOf(args)
                 /\ PatentsOf(args)["intl_inventors"] = 0) => locals.pat_points = Pt(20)
            /\ (only_intl /\ "intl_inventors" \notin DOMAIN PatentsOf(args))
                    => locals.pat_points = Pt(20)
            /\ ret.breakdown["10_patents"] = Round4(locals.pat_points)

\* one international patent with an inventor count of 0 scored the full 20
C11_Witness ==
    /\ Returned("compute_points")
    /\ "patents" \in DOMAIN args
    /\ DOMAIN args.patents = DOMAIN ZeroPayload.patents
    /\ args.patents.intl = 1
    /\ args.patents.intl_inventors = 0
    /\ args.patents.national = 0 /\ args.patents.utility = 0 /\ args.patents.app = 0
    /\ locals.pat_points = Pt(20)


\* the number of awards of a payload, all six types together
AwardCount(d) ==
    d.awards.yok_phd + d.awards.yok_high + d.awards.tubitak_science
    + d.awards.tubitak_encour + d.awards.tuba_gebip + d.awards.tuba_tesep

\* C12: the awards tally is exactly 25 when the six award counts sum to at
\* least 1 and exactly 0 when all six are 0: one award of one type gives 25,
\* awards of two or more types give 25 too, never 50.
C12_Awards ==
    Returned("compute_points") =>
        /\ AwardCount(args) >= 1 => locals.aw_points_capped = Pt(25)
        /\ AwardCount(args) = 0 => locals.aw_points_capped = 0
        /\ ret.breakdown["11_awards_capped25"] = (IF AwardCount(args) >= 1 THEN 250000 ELSE 0)

\* one award of each of two types scored 25
C12_Witness ==
    /\ Returned("compute_points")
    /\ args.awards.yok_phd = 1
    /\ args.awards.tuba_tesep = 1
    /\ AwardCount(args) = 2
    /\ locals.aw_points_capped = Pt(25)


\* a payload with every missing key, field and flag filled in: counts 0, flags
\* false, lists empty, a missing category code as an unknown one, and the
\* defaults of the code for after_degree and has_primary
CompleteRecord(r, zero) == [k \in DOMAIN zero |-> IF k \in DOMAIN r THEN r[k] ELSE zero[k]]

CompleteItem(a) ==
    [type |-> IF "type" \in DOMAIN a THEN a.type ELSE "UNKNOWN",
     num_authors |-> a.num_authors,
     role |-> a.role,
     has_primary |-> IF "has_primary" \in DOMAIN a THEN a.has_primary ELSE TRUE]

CompleteItems(items) == [i \in 1..Len(items) |-> CompleteItem(items[i])]

ZeroInventors ==
    [ZeroPayload.patents EXCEPT !.intl_inventors = 0, !.national_inventors = 0,
                                !.utility_inventors = 0, !.app_inventors = 0]

Complete(d) ==
    [k \in DOMAIN ZeroPayload |->
        IF k = "after_degree" THEN (IF k \in DOMAIN d THEN d[k] ELSE TRUE)
        ELSE IF k \in {"articles", "thesis_articles"}
             THEN (IF k \in DOMAIN d THEN CompleteItems(d[k]) ELSE <<>>)
        ELSE IF k = "patents"
             THEN CompleteRecord(IF k \in DOMAIN d THEN d[k] ELSE <<>>, ZeroInventors)
        ELSE CompleteRecord(IF k \in DOMAIN d THEN d[k] ELSE <<>>, ZeroPayload[k])]

\* the payload without its items of unknown category code
KnownItems(items, map) == SelectSeq(items, LAMBDA a : a.type \in DOMAIN map)

KnownOnly(d) ==
    [d EXCEPT !.articles = KnownItems(d.articles, base_map),
              !.thesis_articles = KnownItems(d.thesis_articles, thesis_map)]

\* C13: compute_points has no error outcome: a result is always returned; an
\* item whose category code is unknown or missing contributes a base value of
\* 0; every missing count field or sub-record is treated as 0; the empty
\* payload yields all tallies 0 and all eight checks false.
C13_NoErrorOutcome ==
    (fn = "compute_points" /\ pc # "call") =>
        /\ pc = "returned"
        /\ ret = compute_points(Complete(args))
        /\ locals.total_articles = total_articles(KnownOnly(Complete(args)))
        /\ locals.thesis_total_share = thesis_total_share(KnownOnly(Complete(args)))
        /\ DOMAIN args = {} =>
              /\ \A k \in DOMAIN ret.checks : ~ret.checks[k]
              /\ \A k \in DOMAIN ret.breakdown : ret.breakdown[k] = 0
              /\ ret.total = 0 /\ ret.total_excluding_thesis = 0


C15_KaydetSaves ==
    (page.run = "Kaydet") =>
        /\ Len(db.records) = Len(page.records_before) + 1
        /\ SubSeq(db.records, 1, Len(page.records_before)) = page.records_before
        /\ db.records[Len(db.records)].owner = session.user.username
        /\ json_loads(db.records[Len(db.records)].payload) = page.calc.payload
        /\ db.records[Len(db.records)].total = page.calc.totals.total
        /\ json_loads(db.records[Len(db.records)].breakdown)
               = page.calc.totals.breakdown

====
